---------------------------- MODULE Spec2Model ----------------------------
(***************************************************************************)
(* Fixed-capacity memory pool allocator (mem_init / mem_alloc / mem_free / *)
(* mem_resize / mem_deinit) of src/unnamed/part_003.                       *)
(*                                                                         *)
(* The descriptor chain (block_list, a singly linked list of MemBlock) is  *)
(* a sequence of records in list order; a pointer is an integer address,   *)
(* NULL is address 0 and a block's pointer is memory_pool + offset.        *)
(*                                                                         *)
(* Spec    : one caller, every public function is one atomic step.         *)
(* SpecMT  : NThreads threads, one step per lock acquisition, per critical *)
(*           section and per unlocked statement.                           *)
(***************************************************************************)
EXTENDS Integers, Sequences, FiniteSets, TLC

\* ------------------------------------------------------------------ bounds
MaxCap == 4          \* largest capacity passed to mem_init under Spec
MaxCapArena == 3     \* largest capacity under SpecArena
MaxCapMT == 4        \* largest capacity under SpecMT
MaxCapLive == 3      \* largest capacity under SpecMTLive
MaxNodes == 3        \* list nodes malloc can hand out before it fails
MaxInserts == 3      \* list_insert calls are made while fewer have succeeded
PoolBase == 1        \* address malloc returns for the arena

NULL == 0            \* the null pointer

Capacities == 0..MaxCap
Sizes == 0..(MaxCap + 1)
Ptrs == 0..(PoolBase + MaxCap)
Bytes == {0, 1}
Threads == {1, 2}
NodeIds == 1..MaxNodes       \* addresses of list nodes
Values == {1, 2}             \* data stored in list nodes

VARIABLES
    memory_pool,   \* NULL or the arena's base address
    pool_size,     \* capacity recorded by mem_init
    block_list,    \* the descriptor chain, in list order
    pool,          \* the arena's bytes, pool[k + 1] is the byte at offset k
    held,          \* caller's live handles: sorted sequence of <<ptr, n>>
    disciplined,   \* TRUE while free/resize were only applied to held handles
    last,          \* the last call: arguments, result and the state before it
    memory_lock,   \* 0 when unlocked, else the thread that holds the mutex
    pc,            \* per thread: the statement it is about to execute
    loc,           \* per thread: arguments and locals of the call in progress
    theld,         \* per thread: its live handles, sorted sequence of <<ptr, n>>
    head,          \* the list: *head, NULL or the address of the first node
    node,          \* the list's heap: per address the Node's data and next
    list_mutex,    \* 0 when unlocked, else the thread that holds the mutex
    lt,            \* per thread: statement, argument and locals of its list call
    tally,         \* per value: list_insert calls that linked a node holding
                   \* it, list_delete calls that unlinked one
    llast          \* the last completed list call, and the list before it

listvars == <<head, node, list_mutex, lt, tally, llast>>
memvars == <<memory_pool, pool_size, block_list, pool, held, disciplined, last,
             memory_lock, pc, loc, theld>>
mtvars == <<memory_lock, pc, loc, theld, listvars>>
vars == <<memory_pool, pool_size, block_list, pool, held, disciplined, last,
          memory_lock, pc, loc, theld, head, node, list_mutex, lt, tally,
          llast>>

\* ------------------------------------------------------------ the chain
MemBlock(o, s, f) == [offset |-> o, size |-> s, is_free |-> f]

RemoveAt(s, i) == SubSeq(s, 1, i - 1) \o SubSeq(s, i + 1, Len(s))

\* first-fit scan of mem_alloc: index of the selected descriptor, 0 if none
\* (variants: the last fitting descriptor; the first large enough descriptor,
\* free or not)
RECURSIVE FirstFitFrom_anyblock(_, _, _)
FirstFitFrom_anyblock(bl, size, i) ==
    IF i > Len(bl) THEN 0
    ELSE IF bl[i].size >= size THEN i
    ELSE FirstFitFrom_anyblock(bl, size, i + 1)

RECURSIVE FirstFitFrom_lastfit(_, _, _)
FirstFitFrom_lastfit(bl, size, i) ==
    IF i > Len(bl) THEN 0
    ELSE LET r == FirstFitFrom_lastfit(bl, size, i + 1) IN
         IF r # 0 THEN r
         ELSE IF bl[i].is_free = 1 /\ bl[i].size >= size THEN i ELSE 0

RECURSIVE FirstFitFrom(_, _, _)
FirstFitFrom(bl, size, i) ==
    IF i > Len(bl) THEN 0
    ELSE IF bl[i].is_free = 1 /\ bl[i].size >= size THEN i
    ELSE FirstFitFrom(bl, size, i + 1)

\* the split of mem_alloc: descriptor i keeps `size` bytes, a free
\* descriptor for the remainder is linked in right after it
\* (variants: the remainder is not linked in; the two sizes are swapped)
AllocSplit_nolink(bl, i, size) ==
    [bl EXCEPT ![i].size = size]

AllocSplit_swapped(bl, i, size) ==
    SubSeq(bl, 1, i - 1)
    \o << MemBlock(bl[i].offset, bl[i].size - size, bl[i].is_free),
          MemBlock(bl[i].offset + bl[i].size - size, size, 1) >>
    \o SubSeq(bl, i + 1, Len(bl))

AllocSplit(bl, i, size) ==
    SubSeq(bl, 1, i - 1)
    \o << MemBlock(bl[i].offset, size, bl[i].is_free),
          MemBlock(bl[i].offset + size, bl[i].size - size, 1) >>
    \o SubSeq(bl, i + 1, Len(bl))

\* mem_alloc marks the selected descriptor allocated
\* (variant: the mark is forgotten)
AllocMark_keepfree(bl, i) == bl

AllocMark(bl, i) == [bl EXCEPT ![i].is_free = 0]

\* mem_alloc's critical section for size > 0: the chain it leaves; ok is the
\* outcome of the malloc of the split descriptor

\* (variant: when the malloc fails the selected block is left free)
AllocList_lose(bl, size, ok) ==
    LET i == FirstFitFrom(bl, size, 1) IN
    IF i = 0 THEN bl
    ELSE LET marked == AllocMark(bl, i) IN
         IF marked[i].size > size
         THEN IF ok THEN AllocSplit(marked, i, size) ELSE bl
         ELSE marked

AllocList(bl, size, ok) ==
    LET i == FirstFitFrom(bl, size, 1) IN
    IF i = 0 THEN bl
    ELSE LET marked == AllocMark(bl, i) IN
         IF marked[i].size > size /\ ok
         THEN AllocSplit(marked, i, size)
         ELSE marked

\* mem_alloc's result for size > 0
\* (variant: the pool pointer instead of NULL when nothing fits)
AllocRet_nofail(mp, bl, size) ==
    LET i == FirstFitFrom(bl, size, 1) IN
    IF i = 0 THEN mp ELSE mp + bl[i].offset

AllocRet(mp, bl, size) ==
    LET i == FirstFitFrom(bl, size, 1) IN
    IF i = 0 THEN NULL ELSE mp + bl[i].offset

\* the search loop of mem_free and mem_resize: first descriptor with the
\* given offset, 0 if none
\* (variant: a pointer anywhere inside a block finds the block)
RECURSIVE FindOffset_inside(_, _, _)
FindOffset_inside(bl, offset, i) ==
    IF i > Len(bl) THEN 0
    ELSE IF bl[i].offset <= offset /\ offset < bl[i].offset + bl[i].size THEN i
    ELSE FindOffset_inside(bl, offset, i + 1)

RECURSIVE FindOffset(_, _, _)
FindOffset(bl, offset, i) ==
    IF i > Len(bl) THEN 0
    ELSE IF bl[i].offset = offset THEN i
    ELSE FindOffset(bl, offset, i + 1)

\* mem_free: coalesce with the next block if free
\* (variant: the next block is unlinked, its bytes are not added)
CoalesceNext_dropsize(bl, i) ==
    IF i < Len(bl) /\ bl[i + 1].is_free = 1
       /\ bl[i].offset + bl[i].size = bl[i + 1].offset
    THEN RemoveAt(bl, i + 1)
    ELSE bl

CoalesceNext(bl, i) ==
    IF i < Len(bl) /\ bl[i + 1].is_free = 1
       /\ bl[i].offset + bl[i].size = bl[i + 1].offset
    THEN RemoveAt([bl EXCEPT ![i].size = bl[i].size + bl[i + 1].size], i + 1)
    ELSE bl

\* mem_free: coalesce with the previous block if free
\* (variant: the previous block is left as it is)
CoalescePrev_keep(bl, i) == bl

CoalescePrev(bl, i) ==
    IF i > 1 /\ bl[i - 1].is_free = 1
       /\ bl[i - 1].offset + bl[i - 1].size = bl[i].offset
    THEN RemoveAt([bl EXCEPT ![i - 1].size = bl[i - 1].size + bl[i].size], i)
    ELSE bl

\* mem_free's critical section
FreeList(mp, bl, ptr) ==
    LET i == FindOffset(bl, ptr - mp, 1) IN
    IF i = 0 THEN bl
    ELSE CoalescePrev(CoalesceNext([bl EXCEPT ![i].is_free = 1], i), i)

\* the split of mem_resize's shrink path
\* (variant: the remainder is not linked in)
ResizeSplit_nolink(bl, i, size) ==
    [bl EXCEPT ![i].size = size]

ResizeSplit(bl, i, size) ==
    SubSeq(bl, 1, i - 1)
    \o << MemBlock(bl[i].offset, size, bl[i].is_free),
          MemBlock(bl[i].offset + size, bl[i].size - size, 1) >>
    \o SubSeq(bl, i + 1, Len(bl))

\* mem_resize's in-place branch (current->size >= size)
ShrinkList(bl, i, size, ok) ==
    IF bl[i].size > size /\ ok THEN ResizeSplit(bl, i, size) ELSE bl

\* memcpy(dst, src, n) on the arena, addresses given as offsets
\* (variants: source and destination are exchanged; the last byte is not
\* copied)
Memcpy_swapped(p, dst, src, n) ==
    [k \in DOMAIN p |->
        IF src < k /\ k <= src + n THEN p[k - src + dst] ELSE p[k]]

Memcpy_short(p, dst, src, n) ==
    [k \in DOMAIN p |->
        IF dst < k /\ k < dst + n THEN p[k - dst + src] ELSE p[k]]

Memcpy(p, dst, src, n) ==
    [k \in DOMAIN p |->
        IF dst < k /\ k <= dst + n THEN p[k - dst + src] ELSE p[k]]


\* ------------------------------------------------- the public functions
\* each operator gives the value of (block_list, pool, return value) that
\* the function leaves, from the values it finds

Outcome(bl, p, r) == [list |-> bl, pool |-> p, ret |-> r]

\* mem_alloc: size 0 returns the pool pointer and touches nothing
\* (variant: size 0 goes through the scan like any other size)
AllocOutcome_scan0(mp, bl, p, size, ok) ==
    Outcome(AllocList(bl, size, ok), p, AllocRet(mp, bl, size))

AllocOutcome(mp, bl, p, size, ok) ==
    IF size = 0 THEN Outcome(bl, p, mp)
    ELSE Outcome(AllocList(bl, size, ok), p, AllocRet(mp, bl, size))

\* mem_free: NULL returns at once
FreeOutcome(mp, bl, p, ptr) ==
    IF ptr = NULL THEN Outcome(bl, p, NULL)
    ELSE Outcome(FreeList(mp, bl, ptr), p, NULL)

\* mem_resize's grow branch: mem_alloc, then memcpy and mem_free when the
\* allocation succeeded
\* (variants: the old block is not freed; the old block is freed before the
\* allocation is tried)
GrowOutcome_nofree(mp, bl, p, ptr, size, ok, old_size) ==
    LET a == AllocOutcome(mp, bl, p, size, ok) IN
    IF a.ret = NULL THEN a
    ELSE Outcome(a.list, Memcpy(p, a.ret - mp, ptr - mp, old_size), a.ret)

GrowOutcome_freefirst(mp, bl, p, ptr, size, ok, old_size) ==
    LET f == FreeList(mp, bl, ptr)
        a == AllocOutcome(mp, f, p, size, ok) IN
    IF a.ret = NULL THEN a
    ELSE Outcome(a.list, Memcpy(p, a.ret - mp, ptr - mp, old_size), a.ret)

GrowOutcome(mp, bl, p, ptr, size, ok, old_size) ==
    LET a == AllocOutcome(mp, bl, p, size, ok) IN
    IF a.ret = NULL THEN a
    ELSE Outcome(FreeList(mp, a.list, ptr),
                 Memcpy(p, a.ret - mp, ptr - mp, old_size),
                 a.ret)

\* mem_resize
\* (variants: a NULL pointer is searched for like any other; size 0 shrinks
\* the block like any other size)
ResizeOutcome_nullsearch(mp, bl, p, ptr, size, ok) ==
    IF size = 0 THEN FreeOutcome(mp, bl, p, ptr)
    ELSE LET i == FindOffset(bl, ptr - mp, 1) IN
         IF i = 0 THEN Outcome(bl, p, NULL)
         ELSE IF bl[i].size >= size
              THEN Outcome(ShrinkList(bl, i, size, ok), p, ptr)
              ELSE GrowOutcome(mp, bl, p, ptr, size, ok, bl[i].size)

ResizeOutcome_zeroshrinks(mp, bl, p, ptr, size, ok) ==
    IF ptr = NULL THEN AllocOutcome(mp, bl, p, size, ok)
    ELSE LET i == FindOffset(bl, ptr - mp, 1) IN
         IF i = 0 THEN Outcome(bl, p, NULL)
         ELSE IF bl[i].size >= size
              THEN Outcome(ShrinkList(bl, i, size, ok), p, ptr)
              ELSE GrowOutcome(mp, bl, p, ptr, size, ok, bl[i].size)

ResizeOutcome(mp, bl, p, ptr, size, ok) ==
    IF ptr = NULL THEN AllocOutcome(mp, bl, p, size, ok)
    ELSE IF size = 0 THEN FreeOutcome(mp, bl, p, ptr)
    ELSE LET i == FindOffset(bl, ptr - mp, 1) IN
         IF i = 0 THEN Outcome(bl, p, NULL)
         ELSE IF bl[i].size >= size
              THEN Outcome(ShrinkList(bl, i, size, ok), p, ptr)
              ELSE GrowOutcome(mp, bl, p, ptr, size, ok, bl[i].size)

\* does the call reach a malloc of a split descriptor
AllocMallocs(bl, size) ==
    LET i == FirstFitFrom(bl, size, 1) IN
    size > 0 /\ i # 0 /\ bl[i].size > size

ResizeMallocs(mp, bl, ptr, size) ==
    IF ptr = NULL THEN AllocMallocs(bl, size)
    ELSE IF size = 0 THEN FALSE
    ELSE LET i == FindOffset(bl, ptr - mp, 1) IN
         IF i = 0 THEN FALSE
         ELSE IF bl[i].size >= size THEN bl[i].size > size
              ELSE AllocMallocs(bl, size)

\* ------------------------------------------------- the caller's handles
HeldLess(a, b) == a[1] < b[1] \/ (a[1] = b[1] /\ a[2] <= b[2])

RECURSIVE InsertHeld(_, _)
InsertHeld(h, e) ==
    IF h = << >> THEN << e >>
    ELSE IF HeldLess(e, Head(h)) THEN << e >> \o h
    ELSE << Head(h) >> \o InsertHeld(Tail(h), e)

RECURSIVE RemoveHeld(_, _)
RemoveHeld(h, ptr) ==
    IF h = << >> THEN << >>
    ELSE IF Head(h)[1] = ptr THEN Tail(h)
    ELSE << Head(h) >> \o RemoveHeld(Tail(h), ptr)

HeldPtrs(h) == { h[i][1] : i \in DOMAIN h }

\* handles after alloc(size) returned ret
HeldAfterAlloc(h, size, ret) ==
    IF size > 0 /\ ret # NULL THEN InsertHeld(h, << ret, size >>) ELSE h

\* handles after resize(ptr, size) returned ret, ptr held, size > 0
HeldAfterResize(h, ptr, size, ret) ==
    IF ret = NULL THEN h
    ELSE InsertHeld(RemoveHeld(h, ptr), << ret, size >>)

NoCall == [op |-> "none", ptr |-> NULL, size |-> 0, ok |-> TRUE, ret |-> NULL,
           pre_list |-> << >>, pre_pool |-> << >>, pre_mp |-> NULL,
           trip_n |-> 0, trip_h |-> NULL, trip_list |-> << >>]

\* the round trip h = alloc(n), free(h), alloc(n) of consecutive calls:
\* after free(h) that directly follows a successful h = alloc(n), the size n;
\* after alloc(n) that directly follows that free, the handle h
TripSize(o, ptr) ==
    IF o = "free" /\ last.op = "alloc" /\ last.size > 0
       /\ last.ret # NULL /\ ptr = last.ret
    THEN last.size ELSE 0
TripHandle(o, size) ==
    IF o = "alloc" /\ last.op = "free" /\ last.trip_n > 0
       /\ size = last.trip_n
    THEN last.ptr ELSE NULL

\* after free(h) that directly follows a successful h = alloc(n), the chain
\* that alloc found
TripList(o, ptr) ==
    IF TripSize(o, ptr) > 0 THEN last.pre_list ELSE << >>

Call(o, ptr, size, ok, ret) ==
    [op |-> o, ptr |-> ptr, size |-> size, ok |-> ok, ret |-> ret,
     pre_list |-> block_list, pre_pool |-> pool, pre_mp |-> memory_pool,
     trip_n |-> TripSize(o, ptr), trip_h |-> TripHandle(o, size),
     trip_list |-> TripList(o, ptr)]

IdleLoc == [ptr |-> NULL, size |-> 0, old_size |-> 0, new_ptr |-> NULL,
            caller |-> "top", ret |-> NULL]

\* ------------------------------------------------- the list's first state
\* a Node that is not allocated
FreeNode == [data |-> 0, next |-> NULL, live |-> FALSE]

IdleList == [pc |-> "idle", data |-> 0, new_node |-> NULL, current |-> NULL,
             prev |-> NULL]

NoListCall == [op |-> "none", by |-> 0, data |-> 0, done |-> FALSE, ret |-> 0,
               pre |-> << >>]

NoTally == [ins |-> [v \in Values |-> 0], del |-> [v \in Values |-> 0],
            contended |-> FALSE]

\* after list_init(&head, size)
list_init ==
    /\ head = NULL
    /\ node = [a \in NodeIds |-> FreeNode]
    /\ list_mutex = 0
    /\ lt = [t \in Threads |-> IdleList]
    /\ tally = NoTally
    /\ llast = NoListCall

\* ------------------------------------------------------------ one caller
Init ==
    /\ list_init
    /\ memory_pool = NULL
    /\ pool_size = 0
    /\ block_list = << >>
    /\ pool = << >>
    /\ held = << >>
    /\ disciplined = TRUE
    /\ last = NoCall
    /\ memory_lock = 0
    /\ pc = [t \in Threads |-> "idle"]
    /\ loc = [t \in Threads |-> IdleLoc]
    /\ theld = [t \in Threads |-> << >>]

\* mem_init on an uninitialised allocator; the arena comes from malloc, its
\* bytes (fill) are whatever malloc left there
\* (variant: the first descriptor is created allocated)
mem_init_allocated(size, fill) ==
    /\ memory_pool = NULL
    /\ memory_pool' = PoolBase
    /\ pool_size' = size
    /\ block_list' = << MemBlock(0, size, 0) >>
    /\ pool' = fill
    /\ held' = << >>
    /\ disciplined' = TRUE
    /\ last' = Call("init", NULL, size, TRUE, NULL)
    /\ UNCHANGED mtvars

mem_init(size, fill) ==
    /\ memory_pool = NULL
    /\ memory_pool' = PoolBase
    /\ pool_size' = size
    /\ block_list' = << MemBlock(0, size, 1) >>
    /\ pool' = fill
    /\ held' = << >>
    /\ disciplined' = TRUE
    /\ last' = Call("init", NULL, size, TRUE, NULL)
    /\ UNCHANGED mtvars

mem_alloc(size, ok) ==
    LET out == AllocOutcome(memory_pool, block_list, pool, size, ok) IN
    /\ ~AllocMallocs(block_list, size) => ok
    /\ block_list' = out.list
    /\ pool' = out.pool
    /\ held' = IF disciplined THEN HeldAfterAlloc(held, size, out.ret) ELSE held
    /\ last' = Call("alloc", NULL, size, ok, out.ret)
    /\ UNCHANGED <<memory_pool, pool_size, disciplined>>
    /\ UNCHANGED mtvars

mem_free(ptr) ==
    LET out == FreeOutcome(memory_pool, block_list, pool, ptr)
        mine == ptr = NULL \/ ptr \in HeldPtrs(held) IN
    /\ block_list' = out.list
    /\ pool' = out.pool
    /\ disciplined' = (disciplined /\ mine)
    /\ held' = IF disciplined /\ mine THEN RemoveHeld(held, ptr) ELSE << >>
    /\ last' = Call("free", ptr, 0, TRUE, NULL)
    /\ UNCHANGED <<memory_pool, pool_size>>
    /\ UNCHANGED mtvars

mem_resize(ptr, size, ok) ==
    LET out == ResizeOutcome(memory_pool, block_list, pool, ptr, size, ok)
        mine == ptr = NULL \/ ptr \in HeldPtrs(held) IN
    /\ ~ResizeMallocs(memory_pool, block_list, ptr, size) => ok
    /\ block_list' = out.list
    /\ pool' = out.pool
    /\ disciplined' = (disciplined /\ mine)
    /\ held' = IF ~(disciplined /\ mine) THEN << >>
               ELSE IF ptr = NULL THEN HeldAfterAlloc(held, size, out.ret)
               ELSE IF size = 0 THEN RemoveHeld(held, ptr)
               ELSE HeldAfterResize(held, ptr, size, out.ret)
    /\ last' = Call("resize", ptr, size, ok, out.ret)
    /\ UNCHANGED <<memory_pool, pool_size>>
    /\ UNCHANGED mtvars

\* (variant: the descriptors are not destroyed)
mem_deinit_keepchain ==
    /\ memory_pool' = NULL
    /\ block_list' = block_list
    /\ pool_size' = 0
    /\ pool' = << >>
    /\ held' = << >>
    /\ last' = Call("deinit", NULL, 0, TRUE, NULL)
    /\ UNCHANGED disciplined
    /\ UNCHANGED mtvars

mem_deinit ==
    /\ memory_pool' = NULL
    /\ block_list' = << >>
    /\ pool_size' = 0
    /\ pool' = << >>
    /\ held' = << >>
    /\ last' = Call("deinit", NULL, 0, TRUE, NULL)
    /\ UNCHANGED disciplined
    /\ UNCHANGED mtvars

\* the caller stores a byte into a block it was granted
Write(k, v) ==
    /\ memory_pool # NULL
    /\ k \in DOMAIN pool
    /\ \E i \in DOMAIN block_list :
          /\ block_list[i].is_free = 0
          /\ block_list[i].offset < k
          /\ k <= block_list[i].offset + block_list[i].size
    /\ pool' = [pool EXCEPT ![k] = v]
    /\ last' = NoCall
    /\ UNCHANGED <<memory_pool, pool_size, block_list, held, disciplined>>
    /\ UNCHANGED mtvars

\* Spec: the chain under every call sequence; the arena is zero-filled and
\* the caller stores nothing (no function of the allocator reads a byte to
\* decide anything)
ZeroFill(size) == [k \in 1..size |-> 0]

Next ==
    \/ \E size \in Capacities : mem_init(size, ZeroFill(size))
    \/ \E size \in Sizes, ok \in BOOLEAN : mem_alloc(size, ok)
    \/ \E ptr \in Ptrs : mem_free(ptr)
    \/ \E ptr \in Ptrs, size \in Sizes, ok \in BOOLEAN : mem_resize(ptr, size, ok)
    \/ mem_deinit

Spec == Init /\ [][Next]_vars

\* SpecArena: the same calls on a smaller arena of arbitrary content, with a
\* caller that stores bytes into its blocks
\* NULL and the addresses from the arena's base to one past its end
PtrsArena == {NULL} \cup PoolBase..(PoolBase + MaxCapArena)

NextArena ==
    \/ \E size \in 0..MaxCapArena : \E fill \in [1..size -> Bytes] : mem_init(size, fill)
    \/ \E size \in 0..(MaxCapArena + 1), ok \in BOOLEAN : mem_alloc(size, ok)
    \/ \E ptr \in PtrsArena : mem_free(ptr)
    \/ \E ptr \in PtrsArena, size \in 0..(MaxCapArena + 1),
          ok \in BOOLEAN : mem_resize(ptr, size, ok)
    \/ mem_deinit
    \/ \E k \in 1..MaxCapArena, v \in Bytes : Write(k, v)

SpecArena == Init /\ [][NextArena]_vars

TypeOK ==
    /\ memory_pool \in {NULL, PoolBase}
    /\ pool_size \in Capacities
    /\ \A k \in DOMAIN pool : pool[k] \in Bytes
    /\ Len(pool) = pool_size
    /\ \A i \in DOMAIN block_list :
          block_list[i].is_free \in {0, 1} /\ block_list[i].size \in Capacities


\* ---------------------------------------------------------------- threads
\* Each thread runs calls one after the other.  A call is cut at every
\* pthread_mutex_lock and pthread_mutex_unlock: entering a function up to
\* the moment its pthread_mutex_lock returns is a step, the critical section
\* up to its unlock is a step, and a statement executed outside the lock is
\* a step.  Threads free and resize only their own handles; mem_init and
\* mem_deinit are called while no other call runs.

seqvars == <<held, disciplined, last, listvars>>

\* the calls mem_resize's grow path makes wait for the lock here
LockPcs == {"alloc_lock", "free_lock"}
CsOf(p) == IF p = "alloc_lock" THEN "alloc_cs" ELSE "free_cs"

Quiet == \A u \in Threads : pc[u] = "idle"
NoLifecycle == \A u \in Threads : pc[u] \notin {"init_cs", "deinit_cs"}

\* pthread_mutex_lock(&memory_lock) returns to thread t
Lock(t) == memory_lock = 0 /\ memory_lock' = t

Goto(t, p) == pc' = [pc EXCEPT ![t] = p]
Return(t, r) ==
    /\ pc' = [pc EXCEPT ![t] = "idle"]
    /\ loc' = [loc EXCEPT ![t] = [IdleLoc EXCEPT !.ret = r]]

\* a thread calls mem_alloc(size)
t_call_alloc(t, size) ==
    /\ pc[t] = "idle" /\ NoLifecycle
    /\ Lock(t)
    /\ Goto(t, "alloc_cs")
    /\ loc' = [loc EXCEPT ![t] = [IdleLoc EXCEPT !.size = size]]
    /\ UNCHANGED <<memory_pool, pool_size, block_list, pool, theld>>
    /\ UNCHANGED seqvars

\* a thread calls mem_free(ptr): NULL returns before the lock is taken
t_call_free(t, ptr) ==
    /\ pc[t] = "idle" /\ NoLifecycle
    /\ ptr \in HeldPtrs(theld[t]) \cup {NULL}
    /\ IF ptr = NULL
       THEN Return(t, NULL) /\ UNCHANGED memory_lock
       ELSE /\ Lock(t)
            /\ Goto(t, "free_cs")
            /\ loc' = [loc EXCEPT ![t] = [IdleLoc EXCEPT !.ptr = ptr]]
    /\ UNCHANGED <<memory_pool, pool_size, block_list, pool, theld>>
    /\ UNCHANGED seqvars

\* a thread calls mem_resize(ptr, size): NULL goes to mem_alloc, size 0 to
\* mem_free, both before the lock is taken
t_call_resize(t, ptr, size) ==
    /\ pc[t] = "idle" /\ NoLifecycle
    /\ ptr \in HeldPtrs(theld[t]) \cup {NULL}
    /\ Lock(t)
    /\ Goto(t, IF ptr = NULL THEN "alloc_cs"
               ELSE IF size = 0 THEN "free_cs" ELSE "resize_cs")
    /\ loc' = [loc EXCEPT ![t] = [IdleLoc EXCEPT !.ptr = ptr, !.size = size]]
    /\ UNCHANGED <<memory_pool, pool_size, block_list, pool, theld>>
    /\ UNCHANGED seqvars

t_call_init(t, size) ==
    /\ Quiet /\ memory_pool = NULL
    /\ Lock(t)
    /\ Goto(t, "init_cs")
    /\ loc' = [loc EXCEPT ![t] = [IdleLoc EXCEPT !.size = size]]
    /\ UNCHANGED <<memory_pool, pool_size, block_list, pool, theld>>
    /\ UNCHANGED seqvars

t_call_deinit(t) ==
    /\ Quiet /\ memory_pool # NULL
    /\ \A u \in Threads : theld[u] = << >>
    /\ Lock(t)
    /\ Goto(t, "deinit_cs")
    /\ loc' = [loc EXCEPT ![t] = IdleLoc]
    /\ UNCHANGED <<memory_pool, pool_size, block_list, pool, theld>>
    /\ UNCHANGED seqvars

\* pthread_mutex_lock(&memory_lock) in a call made by the grow path
t_lock(t) ==
    /\ pc[t] \in LockPcs
    /\ Lock(t)
    /\ Goto(t, CsOf(pc[t]))
    /\ UNCHANGED <<memory_pool, pool_size, block_list, pool, loc, theld>>
    /\ UNCHANGED seqvars

t_init_cs(t) ==
    /\ pc[t] = "init_cs"
    /\ memory_pool' = PoolBase
    /\ pool_size' = loc[t].size
    /\ block_list' = << MemBlock(0, loc[t].size, 1) >>
    /\ pool' = ZeroFill(loc[t].size)
    /\ memory_lock' = 0
    /\ Return(t, NULL)
    /\ UNCHANGED theld
    /\ UNCHANGED seqvars

t_deinit_cs(t) ==
    /\ pc[t] = "deinit_cs"
    /\ memory_pool' = NULL
    /\ block_list' = << >>
    /\ pool_size' = 0
    /\ pool' = << >>
    /\ memory_lock' = 0
    /\ Return(t, NULL)
    /\ UNCHANGED theld
    /\ UNCHANGED seqvars

\* mem_alloc between lock and unlock.  size 0 unlocks and leaves the read of
\* memory_pool to the return statement; otherwise the scan, the split and
\* the result are all computed before the unlock
t_alloc_cs(t, ok) ==
    LET size == loc[t].size
        ret == AllocRet(memory_pool, block_list, size) IN
    /\ pc[t] = "alloc_cs"
    /\ ~AllocMallocs(block_list, size) => ok
    /\ memory_lock' = 0
    /\ IF size = 0
       THEN /\ Goto(t, "alloc_ret_pool")
            /\ UNCHANGED <<block_list, loc, theld>>
       ELSE /\ block_list' = AllocList(block_list, size, ok)
            /\ theld' = [theld EXCEPT ![t] = HeldAfterAlloc(theld[t], size, ret)]
            /\ IF loc[t].caller = "grow" /\ ret # NULL
               THEN /\ Goto(t, "grow_copy")
                    /\ loc' = [loc EXCEPT ![t].new_ptr = ret]
               ELSE Return(t, ret)
    /\ UNCHANGED <<memory_pool, pool_size, pool>>
    /\ UNCHANGED seqvars

\* mem_alloc(0): return memory_pool, after the unlock
t_alloc_ret_pool(t) ==
    /\ pc[t] = "alloc_ret_pool"
    /\ Return(t, memory_pool)
    /\ UNCHANGED <<memory_pool, pool_size, block_list, pool, memory_lock, theld>>
    /\ UNCHANGED seqvars

\* mem_free between lock and unlock; in the grow path mem_resize then
\* returns new_ptr
t_free_cs(t) ==
    /\ pc[t] = "free_cs"
    /\ block_list' = FreeList(memory_pool, block_list, loc[t].ptr)
    /\ theld' = [theld EXCEPT ![t] = RemoveHeld(theld[t], loc[t].ptr)]
    /\ memory_lock' = 0
    /\ Return(t, IF loc[t].caller = "grow" THEN loc[t].new_ptr ELSE NULL)
    /\ UNCHANGED <<memory_pool, pool_size, pool>>
    /\ UNCHANGED seqvars

\* mem_resize between lock and unlock: not found, in place, or the start
\* of the grow path (old_size is read, the chain is left as it is)
\* (variant: the grow path calls mem_alloc without unlocking first)
t_resize_cs_keeplock(t, ok) ==
    LET ptr == loc[t].ptr
        size == loc[t].size
        i == FindOffset(block_list, ptr - memory_pool, 1) IN
    /\ pc[t] = "resize_cs"
    /\ ~(i # 0 /\ block_list[i].size > size) => ok
    /\ IF i = 0
       THEN memory_lock' = 0 /\ Return(t, NULL) /\ UNCHANGED <<block_list, theld>>
       ELSE IF block_list[i].size >= size
       THEN /\ memory_lock' = 0
            /\ block_list' = ShrinkList(block_list, i, size, ok)
            /\ theld' = [theld EXCEPT ![t] = HeldAfterResize(theld[t], ptr, size, ptr)]
            /\ Return(t, ptr)
       ELSE /\ loc' = [loc EXCEPT ![t].old_size = block_list[i].size,
                                  ![t].caller = "grow"]
            /\ Goto(t, "alloc_lock")
            /\ UNCHANGED <<block_list, theld, memory_lock>>
    /\ UNCHANGED <<memory_pool, pool_size, pool>>
    /\ UNCHANGED seqvars

t_resize_cs(t, ok) ==
    LET ptr == loc[t].ptr
        size == loc[t].size
        i == FindOffset(block_list, ptr - memory_pool, 1) IN
    /\ pc[t] = "resize_cs"
    /\ ~(i # 0 /\ block_list[i].size > size) => ok
    /\ memory_lock' = 0
    /\ IF i = 0
       THEN Return(t, NULL) /\ UNCHANGED <<block_list, theld>>
       ELSE IF block_list[i].size >= size
       THEN /\ block_list' = ShrinkList(block_list, i, size, ok)
            /\ theld' = [theld EXCEPT ![t] = HeldAfterResize(theld[t], ptr, size, ptr)]
            /\ Return(t, ptr)
       ELSE /\ loc' = [loc EXCEPT ![t].old_size = block_list[i].size,
                                  ![t].caller = "grow"]
            /\ Goto(t, "alloc_lock")
            /\ UNCHANGED <<block_list, theld>>
    /\ UNCHANGED <<memory_pool, pool_size, pool>>
    /\ UNCHANGED seqvars

\* memcpy(new_ptr, ptr, old_size), outside the lock, then the call of mem_free
t_grow_copy(t) ==
    /\ pc[t] = "grow_copy"
    /\ pool' = Memcpy(pool, loc[t].new_ptr - PoolBase, loc[t].ptr - PoolBase,
                      loc[t].old_size)
    /\ Goto(t, "free_lock")
    /\ UNCHANGED <<memory_pool, pool_size, block_list, memory_lock, loc, theld>>
    /\ UNCHANGED seqvars

NextMT ==
    \E t \in Threads :
        \/ \E size \in 0..MaxCapMT : t_call_init(t, size)
        \/ t_call_deinit(t)
        \/ \E size \in 0..MaxCapMT : t_call_alloc(t, size)
        \/ \E ptr \in 0..(PoolBase + MaxCapMT) : t_call_free(t, ptr)
        \/ \E ptr \in 0..(PoolBase + MaxCapMT), size \in 0..MaxCapMT :
              t_call_resize(t, ptr, size)
        \/ t_lock(t)
        \/ t_init_cs(t)
        \/ t_deinit_cs(t)
        \/ \E ok \in BOOLEAN : t_alloc_cs(t, ok)
        \/ t_alloc_ret_pool(t)
        \/ t_free_cs(t)
        \/ \E ok \in BOOLEAN : t_resize_cs(t, ok)
        \/ t_grow_copy(t)

SpecMT == Init /\ [][NextMT]_vars

\* SpecMTLive: the threads under a fair scheduler.  A thread inside a call
\* that can run keeps running (every statement between two lock operations
\* terminates: the loops walk a finite chain), and a thread waiting in
\* pthread_mutex_lock gets the mutex if it is free again and again.  No
\* thread is obliged to start a call.
Running(t) ==
    \/ t_init_cs(t)
    \/ t_deinit_cs(t)
    \/ \E ok \in BOOLEAN : t_alloc_cs(t, ok)
    \/ t_alloc_ret_pool(t)
    \/ t_free_cs(t)
    \/ \E ok \in BOOLEAN : t_resize_cs(t, ok)
    \/ t_grow_copy(t)

\* the calls of NextMT on pools of at most MaxCapLive bytes
NextLive ==
    \E t \in Threads :
        \/ \E size \in 0..MaxCapLive : t_call_init(t, size)
        \/ t_call_deinit(t)
        \/ \E size \in 0..MaxCapLive : t_call_alloc(t, size)
        \/ \E ptr \in 0..(PoolBase + MaxCapLive) : t_call_free(t, ptr)
        \/ \E ptr \in 0..(PoolBase + MaxCapLive), size \in 0..MaxCapLive :
              t_call_resize(t, ptr, size)
        \/ t_lock(t)
        \/ Running(t)

SpecMTLive ==
    /\ Init /\ [][NextLive]_vars
    /\ \A t \in Threads : WF_vars(Running(t)) /\ SF_vars(t_lock(t))


\* ------------------------------------------- the allocator of part_001
\* The second implementation of the same interface.  Its scan, split and
\* search statements are those above; it differs in what it does when the
\* malloc of a split descriptor fails, in mem_free's test for a block that
\* is already free, and in the coalescing tests, which look at is_free only.

\* mem_alloc: a failed malloc of the split descriptor unlocks and returns
\* NULL before the block is marked
v1_AllocOutcome(mp, bl, p, size, ok) ==
    IF size = 0 THEN Outcome(bl, p, mp)
    ELSE LET i == FirstFitFrom(bl, size, 1) IN
         IF i = 0 THEN Outcome(bl, p, NULL)
         ELSE IF bl[i].size > size
              THEN IF ok
                   THEN Outcome(AllocSplit(AllocMark(bl, i), i, size), p,
                                mp + bl[i].offset)
                   ELSE Outcome(bl, p, NULL)
              ELSE Outcome(AllocMark(bl, i), p, mp + bl[i].offset)

v1_CoalesceNext(bl, i) ==
    IF i < Len(bl) /\ bl[i + 1].is_free = 1
    THEN RemoveAt([bl EXCEPT ![i].size = bl[i].size + bl[i + 1].size], i + 1)
    ELSE bl

v1_CoalescePrev(bl, i) ==
    IF i > 1 /\ bl[i - 1].is_free = 1
    THEN RemoveAt([bl EXCEPT ![i - 1].size = bl[i - 1].size + bl[i].size], i)
    ELSE bl

\* mem_free: NULL and a block that is already free return at once
v1_FreeList(mp, bl, ptr) ==
    LET i == FindOffset(bl, ptr - mp, 1) IN
    IF i = 0 THEN bl
    ELSE IF bl[i].is_free = 1 THEN bl
    ELSE v1_CoalescePrev(v1_CoalesceNext([bl EXCEPT ![i].is_free = 1], i), i)

v1_FreeOutcome(mp, bl, p, ptr) ==
    IF ptr = NULL THEN Outcome(bl, p, NULL)
    ELSE Outcome(v1_FreeList(mp, bl, ptr), p, NULL)

\* mem_resize: a failed malloc of the split descriptor in the in-place
\* branch returns NULL; the grow branch copies current->size bytes, read
\* after mem_alloc returned (no call of one caller changes it in between)
v1_ResizeOutcome(mp, bl, p, ptr, size, ok) ==
    IF ptr = NULL THEN v1_AllocOutcome(mp, bl, p, size, ok)
    ELSE IF size = 0 THEN v1_FreeOutcome(mp, bl, p, ptr)
    ELSE LET i == FindOffset(bl, ptr - mp, 1) IN
         IF i = 0 THEN Outcome(bl, p, NULL)
         ELSE IF bl[i].size >= size
              THEN IF bl[i].size > size
                   THEN IF ok THEN Outcome(ResizeSplit(bl, i, size), p, ptr)
                        ELSE Outcome(bl, p, NULL)
                   ELSE Outcome(bl, p, ptr)
              ELSE LET a == v1_AllocOutcome(mp, bl, p, size, ok) IN
                   IF a.ret = NULL THEN a
                   ELSE Outcome(v1_FreeList(mp, a.list, ptr),
                                Memcpy(p, a.ret - mp, ptr - mp, bl[i].size),
                                a.ret)

v1_mem_init(size, fill) ==
    /\ memory_pool = NULL
    /\ memory_pool' = PoolBase
    /\ pool_size' = size
    /\ block_list' = << MemBlock(0, size, 1) >>
    /\ pool' = fill
    /\ held' = << >>
    /\ disciplined' = TRUE
    /\ last' = Call("init", NULL, size, TRUE, NULL)
    /\ UNCHANGED mtvars

v1_mem_alloc(size, ok) ==
    LET out == v1_AllocOutcome(memory_pool, block_list, pool, size, ok) IN
    /\ ~AllocMallocs(block_list, size) => ok
    /\ block_list' = out.list
    /\ pool' = out.pool
    /\ held' = IF disciplined THEN HeldAfterAlloc(held, size, out.ret) ELSE held
    /\ last' = Call("alloc", NULL, size, ok, out.ret)
    /\ UNCHANGED <<memory_pool, pool_size, disciplined>>
    /\ UNCHANGED mtvars

v1_mem_free(ptr) ==
    LET out == v1_FreeOutcome(memory_pool, block_list, pool, ptr)
        mine == ptr = NULL \/ ptr \in HeldPtrs(held) IN
    /\ block_list' = out.list
    /\ pool' = out.pool
    /\ disciplined' = (disciplined /\ mine)
    /\ held' = IF disciplined /\ mine THEN RemoveHeld(held, ptr) ELSE << >>
    /\ last' = Call("free", ptr, 0, TRUE, NULL)
    /\ UNCHANGED <<memory_pool, pool_size>>
    /\ UNCHANGED mtvars

v1_mem_resize(ptr, size, ok) ==
    LET out == v1_ResizeOutcome(memory_pool, block_list, pool, ptr, size, ok)
        mine == ptr = NULL \/ ptr \in HeldPtrs(held) IN
    /\ ~ResizeMallocs(memory_pool, block_list, ptr, size) => ok
    /\ block_list' = out.list
    /\ pool' = out.pool
    /\ disciplined' = (disciplined /\ mine)
    /\ held' = IF ~(disciplined /\ mine) THEN << >>
               ELSE IF ptr = NULL THEN HeldAfterAlloc(held, size, out.ret)
               ELSE IF size = 0 THEN RemoveHeld(held, ptr)
               ELSE HeldAfterResize(held, ptr, size, out.ret)
    /\ last' = Call("resize", ptr, size, ok, out.ret)
    /\ UNCHANGED <<memory_pool, pool_size>>
    /\ UNCHANGED mtvars

\* mem_deinit resets pool_size only when there is a pool
v1_mem_deinit ==
    /\ memory_pool' = NULL
    /\ pool_size' = IF memory_pool # NULL THEN 0 ELSE pool_size
    /\ block_list' = << >>
    /\ pool' = << >>
    /\ held' = << >>
    /\ last' = Call("deinit", NULL, 0, TRUE, NULL)
    /\ UNCHANGED disciplined
    /\ UNCHANGED mtvars

NextV1 ==
    \/ \E size \in Capacities : v1_mem_init(size, ZeroFill(size))
    \/ \E size \in Sizes, ok \in BOOLEAN : v1_mem_alloc(size, ok)
    \/ \E ptr \in Ptrs : v1_mem_free(ptr)
    \/ \E ptr \in Ptrs, size \in Sizes, ok \in BOOLEAN : v1_mem_resize(ptr, size, ok)
    \/ v1_mem_deinit

SpecV1 == Init /\ [][NextV1]_vars

\* ------------------------------------- the allocator of part_001, threads
\* The steps of a call are cut as above.  Entering a function, waiting for
\* the lock, mem_init, mem_deinit and the return of mem_alloc(0) are the
\* same statements in part_001 and use the steps above; the critical
\* sections and the copy of the grow path differ.

\* mem_alloc between lock and unlock
v1_t_alloc_cs(t, ok) ==
    LET size == loc[t].size
        out == v1_AllocOutcome(memory_pool, block_list, pool, size, ok) IN
    /\ pc[t] = "alloc_cs"
    /\ ~AllocMallocs(block_list, size) => ok
    /\ memory_lock' = 0
    /\ IF size = 0
       THEN /\ Goto(t, "alloc_ret_pool")
            /\ UNCHANGED <<block_list, loc, theld>>
       ELSE /\ block_list' = out.list
            /\ theld' = [theld EXCEPT ![t] = HeldAfterAlloc(theld[t], size, out.ret)]
            /\ IF loc[t].caller = "grow" /\ out.ret # NULL
               THEN /\ Goto(t, "grow_copy")
                    /\ loc' = [loc EXCEPT ![t].new_ptr = out.ret]
               ELSE Return(t, out.ret)
    /\ UNCHANGED <<memory_pool, pool_size, pool>>
    /\ UNCHANGED seqvars

\* mem_free between lock and unlock
v1_t_free_cs(t) ==
    /\ pc[t] = "free_cs"
    /\ block_list' = v1_FreeList(memory_pool, block_list, loc[t].ptr)
    /\ theld' = [theld EXCEPT ![t] = RemoveHeld(theld[t], loc[t].ptr)]
    /\ memory_lock' = 0
    /\ Return(t, IF loc[t].caller = "grow" THEN loc[t].new_ptr ELSE NULL)
    /\ UNCHANGED <<memory_pool, pool_size, pool>>
    /\ UNCHANGED seqvars

\* mem_resize between lock and unlock: not found, in place (NULL when the
\* malloc of the split descriptor fails), or the start of the grow path,
\* which unlocks and keeps only the pointer `current` to the descriptor
v1_t_resize_cs(t, ok) ==
    LET ptr == loc[t].ptr
        size == loc[t].size
        i == FindOffset(block_list, ptr - memory_pool, 1) IN
    /\ pc[t] = "resize_cs"
    /\ ~(i # 0 /\ block_list[i].size > size) => ok
    /\ memory_lock' = 0
    /\ IF i = 0
       THEN Return(t, NULL) /\ UNCHANGED <<block_list, theld>>
       ELSE IF block_list[i].size > size /\ ~ok
       THEN Return(t, NULL) /\ UNCHANGED <<block_list, theld>>
       ELSE IF block_list[i].size >= size
       THEN /\ block_list' = ShrinkList(block_list, i, size, ok)
            /\ theld' = [theld EXCEPT ![t] = HeldAfterResize(theld[t], ptr, size, ptr)]
            /\ Return(t, ptr)
       ELSE /\ loc' = [loc EXCEPT ![t].caller = "grow"]
            /\ Goto(t, "alloc_lock")
            /\ UNCHANGED <<block_list, theld>>
    /\ UNCHANGED <<memory_pool, pool_size, pool>>
    /\ UNCHANGED seqvars

\* memcpy(new_ptr, ptr, current->size), outside the lock: current->size is
\* read here.  The descriptor is the one at the old block's offset while it
\* is still in the chain; once it has been freed the read is of released
\* memory and yields any value
v1_t_grow_copy(t) ==
    LET i == FindOffset(block_list, loc[t].ptr - PoolBase, 1)
        read == IF i # 0 THEN {block_list[i].size}
                ELSE 0..(Len(pool) - (loc[t].new_ptr - PoolBase)) IN
    /\ pc[t] = "grow_copy"
    /\ \E n \in read :
          /\ pool' = Memcpy(pool, loc[t].new_ptr - PoolBase,
                            loc[t].ptr - PoolBase, n)
          /\ loc' = [loc EXCEPT ![t].old_size = n]
    /\ Goto(t, "free_lock")
    /\ UNCHANGED <<memory_pool, pool_size, block_list, memory_lock, theld>>
    /\ UNCHANGED seqvars

NextV1MT ==
    \E t \in Threads :
        \/ \E size \in 0..MaxCapLive : t_call_init(t, size)
        \/ t_call_deinit(t)
        \/ \E size \in 0..MaxCapLive : t_call_alloc(t, size)
        \/ \E ptr \in 0..(PoolBase + MaxCapLive) : t_call_free(t, ptr)
        \/ \E ptr \in 0..(PoolBase + MaxCapLive), size \in 0..MaxCapLive :
              t_call_resize(t, ptr, size)
        \/ t_lock(t)
        \/ t_init_cs(t)
        \/ t_deinit_cs(t)
        \/ \E ok \in BOOLEAN : v1_t_alloc_cs(t, ok)
        \/ t_alloc_ret_pool(t)
        \/ v1_t_free_cs(t)
        \/ \E ok \in BOOLEAN : v1_t_resize_cs(t, ok)
        \/ v1_t_grow_copy(t)

SpecV1MT == Init /\ [][NextV1MT]_vars


\* ------------------------------------------------------- the linked list
\* the nodes reached from h through next, in order; fuel bounds the walk
RECURSIVE Chain(_, _, _)
Chain(nd, h, fuel) ==
    IF h = NULL \/ fuel = 0 THEN << >>
    ELSE << h >> \o Chain(nd, nd[h].next, fuel - 1)

Nodes(nd, h) == Chain(nd, h, MaxNodes + 1)

\* the list as a sequence of (address, data)
Items(nd, h) ==
    LET ns == Nodes(nd, h) IN
    [i \in DOMAIN ns |-> [id |-> ns[i], data |-> nd[ns[i]].data]]

\* malloc(sizeof(Node)): NULL, or the lowest address not in use
Malloc(nd, ok) ==
    LET unused == {a \in NodeIds : ~nd[a].live} IN
    IF ok /\ unused # {}
    THEN CHOOSE a \in unused : \A b \in unused : a <= b
    ELSE NULL

\* list_insert's walk to the end: for (; current->next; current = current->next)
RECURSIVE TailFrom(_, _, _)
TailFrom(nd, current, fuel) ==
    IF nd[current].next = NULL \/ fuel = 0 THEN current
    ELSE TailFrom(nd, nd[current].next, fuel - 1)

\* (variant: the search goes on to the last node holding data)
RECURSIVE DeleteScan_last(_, _, _, _, _)
DeleteScan_last(nd, current, prev, data, fuel) ==
    IF current = NULL \/ fuel = 0
    THEN [current |-> NULL, prev |-> prev]
    ELSE LET rest == DeleteScan_last(nd, nd[current].next, current, data,
                                     fuel - 1) IN
         IF rest.current # NULL THEN rest
         ELSE IF nd[current].data = data
              THEN [current |-> current, prev |-> prev]
              ELSE rest

\* list_delete's search:
\* while (current && current->data != data) { prev = current; current = next }
RECURSIVE DeleteScan(_, _, _, _, _)
DeleteScan(nd, current, prev, data, fuel) ==
    IF current = NULL \/ fuel = 0
    THEN [current |-> NULL, prev |-> prev]
    ELSE IF nd[current].data = data
         THEN [current |-> current, prev |-> prev]
         ELSE DeleteScan(nd, nd[current].next, current, data, fuel - 1)

RECURSIVE SumOver(_, _)
SumOver(f, S) ==
    IF S = {} THEN 0
    ELSE LET v == CHOOSE x \in S : TRUE IN f[v] + SumOver(f, S \ {v})

Inserted == SumOver(tally.ins, Values)
Deleted == SumOver(tally.del, Values)

\* the record of a list call that returns now
ListCall(t, o, data, done, ret) ==
    [op |-> o, by |-> t, data |-> data, done |-> done, ret |-> ret,
     pre |-> Items(node, head)]

ListLockPcs == {"insert_lock", "delete_lock", "count_lock"}

ListCsOf(p) ==
    CASE p = "insert_lock" -> "insert_cs"
      [] p = "delete_lock" -> "delete_cs"
      [] p = "count_lock" -> "count_cs"

\* a thread enters list_insert(&head, data) and reaches pthread_mutex_lock
l_call_insert(t, data) ==
    /\ lt[t].pc = "idle"
    /\ Inserted < MaxInserts
    /\ lt' = [lt EXCEPT ![t] = [IdleList EXCEPT !.pc = "insert_lock",
                                                !.data = data]]
    /\ tally' = [tally EXCEPT !.contended = @ \/ list_mutex # 0]
    /\ UNCHANGED <<head, node, list_mutex, llast>>
    /\ UNCHANGED memvars

\* a thread enters list_delete(&head, data)
l_call_delete(t, data) ==
    /\ lt[t].pc = "idle"
    /\ lt' = [lt EXCEPT ![t] = [IdleList EXCEPT !.pc = "delete_lock",
                                                !.data = data]]
    /\ tally' = [tally EXCEPT !.contended = @ \/ list_mutex # 0]
    /\ UNCHANGED <<head, node, list_mutex, llast>>
    /\ UNCHANGED memvars

\* a thread enters list_count_nodes(&head)
l_call_count(t) ==
    /\ lt[t].pc = "idle"
    /\ lt' = [lt EXCEPT ![t] = [IdleList EXCEPT !.pc = "count_lock"]]
    /\ tally' = [tally EXCEPT !.contended = @ \/ list_mutex # 0]
    /\ UNCHANGED <<head, node, list_mutex, llast>>
    /\ UNCHANGED memvars

\* (variant: the lock is taken whether or not another thread holds it)
l_lock_nomutex(t) ==
    /\ lt[t].pc \in ListLockPcs
    /\ list_mutex' = t
    /\ lt' = [lt EXCEPT ![t].pc = ListCsOf(lt[t].pc)]
    /\ UNCHANGED <<head, node, tally, llast>>
    /\ UNCHANGED memvars

\* pthread_mutex_lock(&list_mutex)
l_lock(t) ==
    /\ lt[t].pc \in ListLockPcs
    /\ list_mutex = 0
    /\ list_mutex' = t
    /\ lt' = [lt EXCEPT ![t].pc = ListCsOf(lt[t].pc)]
    /\ UNCHANGED <<head, node, tally, llast>>
    /\ UNCHANGED memvars

\* list_insert from the malloc to the end of the walk to the last node; it
\* returns from here when malloc fails or the list is empty
l_insert_cs(t, ok) ==
    LET data == lt[t].data
        new_node == Malloc(node, ok)
        made == [node EXCEPT ![new_node] =
                     [data |-> data, next |-> NULL, live |-> TRUE]] IN
    /\ lt[t].pc = "insert_cs"
    /\ IF new_node = NULL
       THEN /\ list_mutex' = 0
            /\ lt' = [lt EXCEPT ![t] = IdleList]
            /\ llast' = ListCall(t, "insert", data, FALSE, 0)
            /\ UNCHANGED <<head, node, tally>>
       ELSE IF head = NULL
       THEN /\ head' = new_node
            /\ node' = made
            /\ list_mutex' = 0
            /\ lt' = [lt EXCEPT ![t] = IdleList]
            /\ tally' = [tally EXCEPT !.ins[data] = @ + 1]
            /\ llast' = ListCall(t, "insert", data, TRUE, 0)
       ELSE /\ node' = made
            /\ lt' = [lt EXCEPT ![t].pc = "insert_link",
                                ![t].new_node = new_node,
                                ![t].current =
                                    TailFrom(node, head, MaxNodes)]
            /\ UNCHANGED <<head, list_mutex, tally, llast>>
    /\ UNCHANGED memvars

\* current->next = new_node; unlock
l_insert_link(t) ==
    /\ lt[t].pc = "insert_link"
    /\ node' = [node EXCEPT ![lt[t].current].next = lt[t].new_node]
    /\ list_mutex' = 0
    /\ lt' = [lt EXCEPT ![t] = IdleList]
    /\ tally' = [tally EXCEPT !.ins[lt[t].data] = @ + 1]
    /\ llast' = ListCall(t, "insert", lt[t].data, TRUE, 0)
    /\ UNCHANGED head
    /\ UNCHANGED memvars

\* list_delete's search; it returns from here when no node holds data
l_delete_cs(t) ==
    LET scan == DeleteScan(node, head, NULL, lt[t].data, MaxNodes + 1) IN
    /\ lt[t].pc = "delete_cs"
    /\ IF scan.current = NULL
       THEN /\ list_mutex' = 0
            /\ lt' = [lt EXCEPT ![t] = IdleList]
            /\ llast' = ListCall(t, "delete", lt[t].data, FALSE, 0)
       ELSE /\ lt' = [lt EXCEPT ![t].pc = "delete_unlink",
                                ![t].current = scan.current,
                                ![t].prev = scan.prev]
            /\ UNCHANGED <<list_mutex, llast>>
    /\ UNCHANGED <<head, node, tally>>
    /\ UNCHANGED memvars

\* the node is unlinked and freed; unlock
l_delete_unlink(t) ==
    LET current == lt[t].current
        prev == lt[t].prev IN
    /\ lt[t].pc = "delete_unlink"
    /\ IF prev # NULL
       THEN /\ node' = [node EXCEPT ![prev].next = node[current].next,
                                    ![current] = FreeNode]
            /\ UNCHANGED head
       ELSE /\ head' = node[current].next
            /\ node' = [node EXCEPT ![current] = FreeNode]
    /\ list_mutex' = 0
    /\ lt' = [lt EXCEPT ![t] = IdleList]
    /\ tally' = [tally EXCEPT !.del[lt[t].data] = @ + 1]
    /\ llast' = ListCall(t, "delete", lt[t].data, TRUE, 0)
    /\ UNCHANGED memvars

\* list_count_nodes: the walk that counts, unlock, return count
l_count_cs(t) ==
    /\ lt[t].pc = "count_cs"
    /\ list_mutex' = 0
    /\ lt' = [lt EXCEPT ![t] = IdleList]
    /\ llast' = ListCall(t, "count", 0, TRUE, Len(Nodes(node, head)))
    /\ UNCHANGED <<head, node, tally>>
    /\ UNCHANGED memvars

NextList ==
    \E t \in Threads :
        \/ \E data \in Values : l_call_insert(t, data)
        \/ \E data \in Values : l_call_delete(t, data)
        \/ l_call_count(t)
        \/ l_lock(t)
        \/ \E ok \in BOOLEAN : l_insert_cs(t, ok)
        \/ l_insert_link(t)
        \/ l_delete_cs(t)
        \/ l_delete_unlink(t)
        \/ l_count_cs(t)

SpecList == Init /\ [][NextList]_vars

\* ------------------------------------------------------------ properties
Ready == memory_pool # NULL

\* the descriptors partition [0, cap), in ascending offset order
Partition(bl, cap) ==
    /\ Len(bl) >= 1
    /\ bl[1].offset = 0
    /\ \A i \in 1..(Len(bl) - 1) : bl[i].offset + bl[i].size = bl[i + 1].offset
    /\ bl[Len(bl)].offset + bl[Len(bl)].size = cap
    /\ \A i, j \in DOMAIN bl : i < j => bl[i].offset < bl[j].offset

NoAdjacentFree(bl) ==
    \A i \in 1..(Len(bl) - 1) : ~(bl[i].is_free = 1 /\ bl[i + 1].is_free = 1)

RECURSIVE SumSizes(_)
SumSizes(bl) == IF bl = << >> THEN 0 ELSE Head(bl).size + SumSizes(Tail(bl))

\* handles of one caller, or of several: pairwise disjoint byte ranges
Disjoint(a, b) == a[1] + a[2] <= b[1] \/ b[1] + b[2] <= a[1]
NoOverlapIn(h) == \A i, j \in DOMAIN h : i # j => Disjoint(h[i], h[j])

\* the free descriptors of the chain before the last call that can take n bytes
Fits(n) == { i \in DOMAIN last.pre_list :
                last.pre_list[i].is_free = 1 /\ last.pre_list[i].size >= n }
\* the descriptor of the chain before the last call the returned pointer names
Selected == CHOOSE i \in DOMAIN last.pre_list :
                last.pre_mp + last.pre_list[i].offset = last.ret
AllocOk == last.op = "alloc" /\ last.size > 0 /\ last.ret # NULL

\* C1: in every Ready state the descriptor chain is in ascending offset order,
\* starts at offset 0, each descriptor ends where the next begins and the last
\* one ends at the capacity, whatever handles and sizes the calls were given.
C1_PartitionInvariant == Ready => Partition(block_list, pool_size)

\* a grow-resize has relocated a block and left a chain of three descriptors
C1_Witness ==
    /\ Ready /\ last.op = "resize" /\ last.ptr # NULL
    /\ last.ret # NULL /\ last.ret # last.ptr
    /\ Len(block_list) >= 3

\* C2: after any sequence of init, alloc, free and resize calls no two
\* adjacent descriptors are both free.  Stated for the callers that free and
\* resize only blocks they hold, which the claim includes.
C2_NoAdjacentFree == (Ready /\ disciplined) => NoAdjacentFree(block_list)

\* C3: while free and resize are applied only to handles the caller holds,
\* the byte ranges [ptr, ptr + n) of any two live handles are disjoint.
C3_NoOverlap == disciplined => NoOverlapIn(held)

\* two live handles, the second obtained by a relocating resize
C3_Witness ==
    /\ disciplined /\ Len(held) >= 2
    /\ last.op = "resize" /\ last.ptr # NULL
    /\ last.ret # NULL /\ last.ret # last.ptr

\* C7: alloc(n), n > 0, returns the lowest-offset free descriptor of length
\* >= n, one that no other free descriptor of length >= n precedes.
C7_FirstFit ==
    (last.op = "alloc" /\ last.size > 0 /\ Fits(last.size) # {}) =>
        /\ last.ret # NULL
        /\ Selected \in Fits(last.size)
        /\ \A j \in Fits(last.size) :
              /\ last.pre_list[Selected].offset <= last.pre_list[j].offset
              /\ Selected <= j

\* alloc had two free descriptors to choose from and one of them, too small,
\* lay before the chosen one
C7_Witness ==
    /\ AllocOk
    /\ \E j \in DOMAIN last.pre_list :
          /\ j < Selected
          /\ last.pre_list[j].is_free = 1
          /\ last.pre_list[j].size < last.size

\* alloc had two fitting free descriptors to choose from
C7_WitnessTwoFits == AllocOk /\ Cardinality(Fits(last.size)) >= 2

\* C8 as stated: every successful alloc(n), n > 0, leaves the descriptor at
\* the returned offset allocated with length exactly n, whatever the outcome
\* of the malloc of the split descriptor.
C8_ExactSize ==
    AllocOk =>
        \E i \in DOMAIN block_list :
            /\ memory_pool + block_list[i].offset = last.ret
            /\ block_list[i].is_free = 0
            /\ block_list[i].size = last.size
            /\ block_list[i].offset + last.size <= pool_size

\* C8 amended: the descriptor at the returned offset is allocated; its length
\* is exactly n when the selected block had length n or the split descriptor
\* was created, and is the selected block's whole length (> n) when the
\* malloc of the split descriptor failed; offset + length <= capacity.
C8_SizeGranted ==
    AllocOk =>
        \E i \in DOMAIN block_list :
            /\ memory_pool + block_list[i].offset = last.ret
            /\ \A k \in DOMAIN block_list :
                  block_list[k].offset = block_list[i].offset => k = i
            /\ block_list[i].is_free = 0
            /\ block_list[i].size =
                  IF last.ok THEN last.size ELSE last.pre_list[Selected].size
            /\ block_list[i].size >= last.size
            /\ ~last.ok => last.pre_list[Selected].size > last.size
            /\ block_list[i].offset + block_list[i].size <= pool_size

\* an alloc whose split descriptor could not be allocated
C8_Witness == AllocOk /\ ~last.ok

\* C9: when alloc(n) selects a free descriptor (o, L) with L > n and the split
\* descriptor is created, the chain afterwards is the chain before with that
\* descriptor replaced by allocated (o, n) followed by free (o + n, L - n);
\* when L = n the descriptor is only marked allocated.
C9_SplitOnAlloc ==
    AllocOk =>
        LET pre == last.pre_list
            i == Selected
            o == pre[i].offset
            L == pre[i].size
            n == last.size IN
        /\ (L > n /\ last.ok) =>
              block_list = SubSeq(pre, 1, i - 1)
                           \o << MemBlock(o, n, 0), MemBlock(o + n, L - n, 1) >>
                           \o SubSeq(pre, i + 1, Len(pre))
        /\ L = n =>
              block_list = [pre EXCEPT ![i] = MemBlock(o, L, 0)]

\* a split of a descriptor that had a successor
C9_Witness ==
    /\ AllocOk /\ last.ok
    /\ last.pre_list[Selected].size > last.size
    /\ Selected < Len(last.pre_list)

\* C10: when no free descriptor has length >= n, alloc(n), n > 0, returns
\* NULL and leaves the descriptor chain and the arena as they were.
C10_Exhaustion ==
    (last.op = "alloc" /\ last.size > 0 /\ Fits(last.size) = {}) =>
        /\ last.ret = NULL
        /\ block_list = last.pre_list
        /\ pool = last.pre_pool
        /\ memory_pool = last.pre_mp

\* init(2c), alloc(c), alloc(c), then alloc(1) finds the pool exhausted
\* (the scenario init(100), alloc(50), alloc(50), alloc(1) with c = 1)
C10_Witness ==
    /\ last.op = "alloc" /\ last.size = 1 /\ last.ret = NULL
    /\ last.pre_list = << MemBlock(0, 1, 0), MemBlock(1, 1, 0) >>

\* the descriptors of the chain before the last call that a pointer names,
\* and the one the search loop of mem_free and mem_resize stops at
Named(ptr) == { i \in DOMAIN last.pre_list :
                  last.pre_mp + last.pre_list[i].offset = ptr }
Target == CHOOSE i \in Named(last.ptr) : \A j \in Named(last.ptr) : i <= j
FreeOfAllocated ==
    /\ last.op = "free" /\ Named(last.ptr) # {}
    /\ last.pre_list[Target].is_free = 0

\* a chain with descriptor i, its predecessor if free and its successor if
\* free replaced by one free descriptor that starts at the first of them and
\* has the sum of their lengths
MergeAt(ch, i) ==
    LET lo == IF i > 1 /\ ch[i - 1].is_free = 1 THEN i - 1 ELSE i
        hi == IF i < Len(ch) /\ ch[i + 1].is_free = 1 THEN i + 1 ELSE i
        sum == (IF lo < i THEN ch[lo].size ELSE 0) + ch[i].size
               + (IF hi > i THEN ch[hi].size ELSE 0) IN
    SubSeq(ch, 1, lo - 1)
    \o << MemBlock(ch[lo].offset, sum, 1) >>
    \o SubSeq(ch, hi + 1, Len(ch))

\* C11: free(h) on an allocated descriptor leaves the chain before the call
\* with that descriptor, its predecessor if free and its successor if free
\* replaced by one free descriptor that starts at the first of them and has
\* the sum of their lengths; every other descriptor is as it was.
C11_FreeCoalesces ==
    FreeOfAllocated => block_list = MergeAt(last.pre_list, Target)

\* init(4c), a = alloc(c), b = alloc(c), free(a), free(b): the two freed
\* blocks and the trailing free block end as one free descriptor (0, 4c)
\* (the scenario init(100), alloc(20), alloc(20), free(a), free(b), c = 1)
C11_Witness ==
    /\ FreeOfAllocated /\ disciplined
    /\ last.pre_list = << MemBlock(0, 1, 1), MemBlock(1, 1, 0), MemBlock(2, 2, 1) >>
    /\ block_list = << MemBlock(0, 4, 1) >>

\* C12: free(NULL), and free(h) where h names no descriptor (a pointer into
\* the middle of a block, or outside the arena), leave the descriptor chain,
\* the arena and the pool pointer exactly as they were.
C12_FreeUnknownNoOp ==
    (last.op = "free" /\ (last.ptr = NULL \/ Named(last.ptr) = {})) =>
        /\ block_list = last.pre_list
        /\ pool = last.pre_pool
        /\ memory_pool = last.pre_mp

\* free of a pointer into the middle of an allocated block
C12_Witness ==
    /\ Ready /\ last.op = "free" /\ last.ptr # NULL /\ Named(last.ptr) = {}
    /\ \E i \in DOMAIN last.pre_list :
          /\ last.pre_list[i].is_free = 0
          /\ last.pre_mp + last.pre_list[i].offset < last.ptr
          /\ last.ptr < last.pre_mp + last.pre_list[i].offset + last.pre_list[i].size

\* C13: free(h) where h names a descriptor that is already free leaves the
\* whole descriptor chain (number of descriptors, offsets, lengths, flags)
\* unchanged, in every reachable state.
C13_DoubleFreeNoOp ==
    (last.op = "free" /\ Named(last.ptr) # {}
        /\ last.pre_list[Target].is_free = 1) =>
        block_list = last.pre_list

\* C14: alloc(0) returns the pool pointer, that is the handle of offset 0,
\* and leaves the descriptor chain and the arena unchanged, whether the
\* descriptor at offset 0 is free or allocated and whether or not any free
\* space remains.
C14_ZeroSizeAlloc ==
    (last.op = "alloc" /\ last.size = 0) =>
        /\ last.ret = last.pre_mp + 0
        /\ Ready => last.ret = PoolBase
        /\ block_list = last.pre_list
        /\ pool = last.pre_pool
        /\ memory_pool = last.pre_mp

\* alloc(0) on a pool whose every byte is allocated
C14_Witness ==
    /\ Ready /\ last.op = "alloc" /\ last.size = 0
    /\ pool_size > 0
    /\ \A i \in DOMAIN last.pre_list : last.pre_list[i].is_free = 0
    /\ last.ret = PoolBase

\* the handle alloc(0) returns in the state before the last call
Sentinel ==
    AllocOutcome(last.pre_mp, last.pre_list, last.pre_pool, 0, TRUE).ret

\* C15: for s = alloc(0), free(s) leaves the descriptor chain unchanged in
\* every reachable state; a real allocation at offset 0 stays allocated.
C15_SentinelFreeNoOp ==
    (last.op = "free" /\ last.pre_mp # NULL /\ last.ptr = Sentinel) =>
        block_list = last.pre_list

\* resize(h, m), m > 0, on an allocated descriptor
ResizeOfAllocated ==
    /\ last.op = "resize" /\ last.ptr # NULL /\ last.size > 0
    /\ Named(last.ptr) # {}
    /\ last.pre_list[Target].is_free = 0
ShrinkCall == ResizeOfAllocated /\ last.pre_list[Target].size >= last.size
\* the chain before the last call with descriptor i cut to m bytes and a free
\* descriptor for the rest right after it
CutAt(pre, i, m) ==
    SubSeq(pre, 1, i - 1)
    \o << MemBlock(pre[i].offset, m, 0),
          MemBlock(pre[i].offset + m, pre[i].size - m, 1) >>
    \o SubSeq(pre, i + 1, Len(pre))

\* C16 as stated: resize(h, m), m > 0, on an allocated descriptor (o, L) with
\* L >= m returns h; when L > m the descriptor becomes allocated (o, m) and a
\* free descriptor (o + m, L - m) follows it; when L = m the chain is
\* unchanged.
C16_ShrinkInPlace ==
    ShrinkCall =>
        LET pre == last.pre_list
            i == Target IN
        /\ last.ret = last.ptr
        /\ pre[i].size > last.size => block_list = CutAt(pre, i, last.size)
        /\ pre[i].size = last.size => block_list = pre

\* C16 amended: the same, except that when L > m and the malloc of the split
\* descriptor fails the chain is unchanged too: the descriptor keeps length L.
C16_ShrinkOrKeep ==
    ShrinkCall =>
        LET pre == last.pre_list
            i == Target IN
        /\ last.ret = last.ptr
        /\ pool = last.pre_pool
        /\ (pre[i].size > last.size /\ last.ok) =>
              block_list = CutAt(pre, i, last.size)
        /\ (pre[i].size = last.size \/ ~last.ok) => block_list = pre

\* a shrink that split a descriptor with a successor, by a caller that holds h
C16_Witness ==
    /\ ShrinkCall /\ last.ok /\ disciplined
    /\ last.pre_list[Target].size > last.size
    /\ Target < Len(last.pre_list)
    /\ Len(block_list) = Len(last.pre_list) + 1

\* resize(h, m) on an allocated descriptor shorter than m while a free
\* descriptor of length >= m exists
GrowCall ==
    /\ ResizeOfAllocated /\ last.pre_list[Target].size < last.size
    /\ Fits(last.size) # {}
FirstFit == CHOOSE i \in Fits(last.size) : \A j \in Fits(last.size) : i <= j
\* the chain a relocation leaves: the first fitting descriptor allocated, cut
\* to m bytes if `split`, then the old descriptor merged with its neighbours
GrowExpect(split) ==
    LET pre == last.pre_list
        sel == FirstFit
        cut == pre[sel].size > last.size /\ split
        mid == IF cut THEN CutAt(pre, sel, last.size)
               ELSE [pre EXCEPT ![sel].is_free = 0]
        old == IF cut /\ Target > sel THEN Target + 1 ELSE Target IN
    MergeAt(mid, old)
\* the bytes of the old descriptor lie in a free descriptor
OldIsFree ==
    LET o == last.pre_list[Target] IN
    \E k \in DOMAIN block_list :
        /\ block_list[k].is_free = 1
        /\ block_list[k].offset <= o.offset
        /\ o.offset + o.size <= block_list[k].offset + block_list[k].size

\* C17 as stated: such a resize returns a handle different from h, the one
\* first-fit selects for alloc(m); afterwards the new descriptor is allocated
\* with length m and the old descriptor is free and merged with its free
\* neighbours.
C17_GrowRelocates ==
    GrowCall =>
        /\ last.ret # NULL /\ last.ret # last.ptr
        /\ last.ret = last.pre_mp + last.pre_list[FirstFit].offset
        /\ \E k \in DOMAIN block_list :
              /\ memory_pool + block_list[k].offset = last.ret
              /\ block_list[k].is_free = 0
              /\ block_list[k].size = last.size
        /\ OldIsFree
        /\ block_list = GrowExpect(TRUE)

\* C17 amended: the new descriptor has length m when the selected block had
\* length m or the split descriptor was created, and the selected block's
\* whole length (> m) when the malloc of the split descriptor failed.
C17_GrowRelocatesOrWhole ==
    GrowCall =>
        /\ last.ret # NULL /\ last.ret # last.ptr
        /\ last.ret = last.pre_mp + last.pre_list[FirstFit].offset
        /\ \E k \in DOMAIN block_list :
              /\ memory_pool + block_list[k].offset = last.ret
              /\ block_list[k].is_free = 0
              /\ block_list[k].size =
                    IF last.ok THEN last.size
                    ELSE last.pre_list[FirstFit].size
              /\ block_list[k].size >= last.size
        /\ OldIsFree
        /\ block_list = GrowExpect(last.ok)

\* a relocation to a block in front of the old one, whose remainder the old
\* block is then merged with, by a caller that holds h
C17_Witness ==
    /\ GrowCall /\ last.ok /\ disciplined
    /\ FirstFit = Target - 1
    /\ last.pre_list[FirstFit].size > last.size
    /\ Len(block_list) = Len(last.pre_list)

\* a resize that relocated an allocated block
GrowDone ==
    /\ ResizeOfAllocated /\ last.pre_list[Target].size < last.size
    /\ last.ret # NULL

\* C18: after a successful grow of a block of old length L, the L bytes at
\* the new offset are the L bytes that were at the old offset before the
\* call, and every other byte of the arena is as it was: exactly L bytes are
\* copied.
C18_GrowPreservesContent ==
    GrowDone =>
        LET o == last.pre_list[Target].offset
            L == last.pre_list[Target].size
            n == last.ret - memory_pool IN
        /\ \A j \in 1..L : pool[n + j] = last.pre_pool[o + j]
        /\ \A k \in DOMAIN pool :
              (k <= n \/ k > n + L) => pool[k] = last.pre_pool[k]

\* a grow whose copy changed the last byte it wrote, and left a byte of the
\* new block beyond the old length that differs from the byte that follows
\* the old block
C18_Witness ==
    /\ GrowDone /\ disciplined
    /\ LET o == last.pre_list[Target].offset
           L == last.pre_list[Target].size
           n == last.ret - memory_pool IN
       /\ L >= 1
       /\ last.pre_pool[n + L] # last.pre_pool[o + L]
       /\ pool[n + L] = last.pre_pool[o + L]
       /\ o + L + 1 \in DOMAIN pool
       /\ pool[n + L + 1] # last.pre_pool[o + L + 1]

\* C19: when resize(h, m) has to grow an allocated block and no free
\* descriptor has length >= m, it returns NULL, the chain is exactly as
\* before, the old descriptor is still allocated with its old length and the
\* arena bytes are unchanged.
C19_GrowFailureAtomic ==
    (ResizeOfAllocated /\ last.pre_list[Target].size < last.size
        /\ Fits(last.size) = {}) =>
        /\ last.ret = NULL
        /\ block_list = last.pre_list
        /\ block_list[Target].is_free = 0
        /\ block_list[Target].size = last.pre_list[Target].size
        /\ pool = last.pre_pool
        /\ memory_pool = last.pre_mp

\* a failed grow of a block that holds a non-zero byte, while a free block
\* next to it, too short alone, would be long enough together with it
C19_Witness ==
    /\ ResizeOfAllocated /\ disciplined /\ last.ret = NULL
    /\ last.pre_list[Target].size < last.size
    /\ pool[last.pre_list[Target].offset + 1] = 1
    /\ Target < Len(last.pre_list)
    /\ last.pre_list[Target + 1].is_free = 1
    /\ last.pre_list[Target].size + last.pre_list[Target + 1].size >= last.size

\* the "no space" result: what resize returns for a grow on a full pool
NoSpaceResult ==
    ResizeOutcome(PoolBase, << MemBlock(0, 1, 0) >>, << 0 >>, PoolBase, 2, TRUE).ret

\* C20: resize(h, m), m > 0, on a non-null handle that names no descriptor
\* leaves the chain unchanged and returns a result the caller can tell from
\* the "no space" result of a failed grow.
C20_NotFoundDistinguishable ==
    (last.op = "resize" /\ last.ptr # NULL /\ last.size > 0
        /\ last.pre_mp # NULL /\ Named(last.ptr) = {}) =>
        /\ block_list = last.pre_list
        /\ last.ret # NoSpaceResult

\* C21: resize(NULL, m) returns what alloc(m) returns from the same state
\* and leaves the chain and the arena alloc(m) leaves, for every m, 0
\* included.
C21_ResizeNullIsAlloc ==
    (last.op = "resize" /\ last.ptr = NULL) =>
        LET a == AllocOutcome(last.pre_mp, last.pre_list, last.pre_pool,
                              last.size, last.ok) IN
        /\ last.ret = a.ret
        /\ block_list = a.list
        /\ pool = a.pool
        /\ last.size = 0 => (last.ret = last.pre_mp /\ block_list = last.pre_list)
        /\ (last.size > 0 /\ Fits(last.size) = {}) => last.ret = NULL
        /\ (last.size > 0 /\ Fits(last.size) # {}) =>
              last.ret = last.pre_mp + last.pre_list[FirstFit].offset

\* resize(NULL, m) that split a free descriptor behind an allocated one
C21_Witness ==
    /\ Ready /\ last.op = "resize" /\ last.ptr = NULL /\ last.size > 0
    /\ last.ret # NULL /\ last.ret # memory_pool
    /\ Len(block_list) = Len(last.pre_list) + 1

\* C22: resize(h, 0), h not NULL, returns NULL and leaves the chain free(h)
\* leaves from the same state: the block freed and merged with its free
\* neighbours, or the chain unchanged when h names no descriptor.
C22_ResizeZeroIsFree ==
    (last.op = "resize" /\ last.ptr # NULL /\ last.size = 0) =>
        LET f == FreeOutcome(last.pre_mp, last.pre_list, last.pre_pool,
                             last.ptr) IN
        /\ last.ret = NULL
        /\ block_list = f.list
        /\ pool = f.pool
        /\ Named(last.ptr) = {} => block_list = last.pre_list
        /\ (Named(last.ptr) # {} /\ last.pre_list[Target].is_free = 0) =>
              block_list = MergeAt(last.pre_list, Target)

\* resize(h, 0) that freed a block and merged it with a free neighbour
C22_Witness ==
    /\ last.op = "resize" /\ last.ptr # NULL /\ last.size = 0 /\ disciplined
    /\ Named(last.ptr) # {} /\ last.pre_list[Target].is_free = 0
    /\ Len(block_list) < Len(last.pre_list)

\* C23: in a Ready state, when h = alloc(n), n > 0, succeeds, free(h) and
\* then alloc(n), with no call in between, returns h again.  Stated for the
\* callers that free and resize only handles they hold.
C23_RoundTripReuse ==
    (disciplined /\ last.op = "alloc" /\ last.trip_h # NULL) =>
        last.ret = last.trip_h

\* C24: after mem_init(capacity) and any calls of alloc, free and resize,
\* with NULL, stale or non-matching handles and failed split mallocs among
\* them, the lengths of the descriptors add up to the capacity.
C24_LengthSum == Ready => SumSizes(block_list) = pool_size

\* a free merged two descriptors after the caller had used a handle it did
\* not hold, next to an allocated block of more than one byte
C24_Witness ==
    /\ Ready /\ ~disciplined /\ last.op = "free"
    /\ Len(block_list) < Len(last.pre_list)
    /\ \E i \in DOMAIN block_list :
          block_list[i].is_free = 0 /\ block_list[i].size > 1

\* C25: in every Ready state every descriptor has length > 0, whatever
\* capacity mem_init was given.
C25_PositiveLengths ==
    Ready => \A i \in DOMAIN block_list : block_list[i].size > 0

\* C26: mem_deinit leaves the allocator as it is before mem_init: pool
\* pointer NULL, pool size 0, no descriptor, no arena; called on an
\* allocator that is not initialised it changes nothing, so a second
\* mem_deinit leaves what the first left.
C26_DeinitResets ==
    last.op = "deinit" =>
        /\ memory_pool = NULL /\ pool_size = 0
        /\ block_list = << >> /\ pool = << >>
        /\ last.pre_mp = NULL =>
              (block_list = last.pre_list /\ pool = last.pre_pool)

\* mem_deinit of a pool that held an allocated and a free block
C26_Witness ==
    /\ last.op = "deinit" /\ last.pre_mp # NULL
    /\ Len(last.pre_list) >= 2
    /\ \E i \in DOMAIN last.pre_list : last.pre_list[i].is_free = 0
    /\ ~Ready

\* C27: when the malloc of the split descriptor fails, alloc(n) returns the
\* selected block's handle with the whole block (length L > n) marked
\* allocated, and a shrinking resize returns h with the block's length
\* unchanged; no descriptor is added or lost and the chain still partitions
\* the arena.
C27_DegradedSplit ==
    /\ (last.op = "alloc" /\ last.size > 0 /\ ~last.ok) =>
          /\ Fits(last.size) # {}
          /\ last.ret = last.pre_mp + last.pre_list[FirstFit].offset
          /\ last.pre_list[FirstFit].size > last.size
          /\ block_list = [last.pre_list EXCEPT ![FirstFit].is_free = 0]
          /\ Partition(block_list, pool_size)
    /\ (ShrinkCall /\ ~last.ok) =>
          /\ last.ret = last.ptr
          /\ last.pre_list[Target].size > last.size
          /\ block_list = last.pre_list
          /\ Partition(block_list, pool_size)

\* a shrinking resize whose split malloc failed, on a block that is not the
\* only one
C27_Witness ==
    /\ ShrinkCall /\ ~last.ok /\ disciplined
    /\ Len(block_list) >= 2

\* a resize that relocated the block h names, allocated or not
Relocated ==
    /\ last.op = "resize" /\ last.ptr # NULL /\ last.size > 0
    /\ Named(last.ptr) # {}
    /\ last.pre_list[Target].size < last.size
    /\ last.ret # NULL

AllHeld == { << t, i >> : t \in Threads, i \in 1..MaxCapMT } 
LiveHandles == { x \in AllHeld : x[2] \in DOMAIN theld[x[1]] }
HandleOf(x) == theld[x[1]][x[2]]

\* no two handles held at the same time, by one thread or by two, overlap
NoOverlapMT ==
    \A x, y \in LiveHandles : x # y => Disjoint(HandleOf(x), HandleOf(y))

\* the statements that read or write block_list, a descriptor or memory_pool
SharedAccessPcs ==
    {"init_cs", "deinit_cs", "alloc_cs", "alloc_ret_pool", "free_cs", "resize_cs"}

\* thread t is inside mem_resize's grow path, after the unlock that follows
\* the inspection of the old block and before mem_free has freed it
InGrowWindow(t) ==
    /\ loc[t].caller = "grow"
    /\ pc[t] \in {"alloc_lock", "alloc_cs", "grow_copy", "free_lock", "free_cs"}

OldBlock(t) == << loc[t].ptr, loc[t].old_size >>

\* C4: with threads that free and resize only their own handles, once all
\* threads have finished the chain partitions [0, capacity), its lengths sum
\* to the capacity and no two adjacent descriptors are free; and at no time
\* do two held handles overlap.
C4_ConcurrentConsistency ==
    /\ (Quiet /\ Ready) =>
          /\ Partition(block_list, pool_size)
          /\ SumSizes(block_list) = pool_size
          /\ NoAdjacentFree(block_list)
    /\ NoOverlapMT

\* the part of C4 that the code keeps: partition, length sum and no overlap
C4_PartitionAndNoOverlap ==
    /\ Ready =>
          /\ Partition(block_list, pool_size)
          /\ SumSizes(block_list) = pool_size
    /\ NoOverlapMT

\* C5: while a thread is in the grow path between the unlock and the final
\* free of the old handle, the old descriptor is still there and allocated
\* with its old length, no handle of another thread overlaps the old block,
\* and the block mem_alloc returned to the growing thread does not either.
C5_GrowWindow ==
    \A t \in Threads : InGrowWindow(t) =>
        /\ \E i \in DOMAIN block_list :
              /\ memory_pool + block_list[i].offset = loc[t].ptr
              /\ block_list[i].is_free = 0
              /\ block_list[i].size = loc[t].old_size
        /\ \A u \in Threads \ {t} : \A k \in DOMAIN theld[u] :
              Disjoint(theld[u][k], OldBlock(t))
        /\ loc[t].new_ptr # NULL =>
              Disjoint(<< loc[t].new_ptr, loc[t].size >>, OldBlock(t))

\* a thread is about to copy out of its old block while the other thread
\* has been granted a block since the grow began
C5_Witness ==
    \E t \in Threads : \E u \in Threads \ {t} :
        /\ InGrowWindow(t) /\ pc[t] = "grow_copy"
        /\ theld[u] # << >>
        /\ loc[u].ret # NULL

\* C6: every read or write of block_list, of a descriptor and of memory_pool
\* is made by a thread that holds memory_lock.
C6_LockSerialization ==
    \A t \in Threads : pc[t] \in SharedAccessPcs => memory_lock = t

\* the reads and writes the code does make under the lock
C6_CriticalSectionsLocked ==
    \A t \in Threads :
        pc[t] \in SharedAccessPcs \ {"alloc_ret_pool"} => memory_lock = t

\* a thread is inside a critical section
InCs(t) == pc[t] \in {"init_cs", "deinit_cs", "alloc_cs", "free_cs", "resize_cs"}
\* no thread waits for the mutex it holds, only a thread inside a critical
\* section holds it, and it is free when no thread is inside a call
LockDiscipline ==
    /\ \A t \in Threads : pc[t] \in LockPcs => memory_lock # t
    /\ \A t \in Threads : memory_lock = t => InCs(t)
    /\ Quiet => memory_lock = 0

C30_V1DegradedSplit ==
    /\ (last.op = "alloc" /\ last.size > 0 /\ ~last.ok) =>
          /\ Fits(last.size) # {}
          /\ last.ret = last.pre_mp + last.pre_list[FirstFit].offset
          /\ block_list = [last.pre_list EXCEPT ![FirstFit].is_free = 0]
    /\ (ShrinkCall /\ ~last.ok) => last.ret = last.ptr
\* C31: in part_001 the grow path of mem_resize reads the old descriptor's
\* length, the size of the copy, only while it holds memory_lock: a thread
\* at the statement that reads current->size holds the lock.
C31_V1GrowReadLocked ==
    \A t \in Threads : pc[t] = "grow_copy" => memory_lock = t

\* C34: in a Ready state whose chain partitions the arena and has no two
\* adjacent free descriptors, a successful h = alloc(n), n > 0, directly
\* followed by free(h) leaves exactly the chain that was there before the
\* alloc.
C34_AllocFreeInverse ==
    (last.op = "free" /\ last.trip_n > 0
        /\ Partition(last.trip_list, pool_size)
        /\ NoAdjacentFree(last.trip_list)) =>
        block_list = last.trip_list

\* the alloc had split a free block that follows allocated blocks, the free
\* merged the two halves again
C34_Witness ==
    /\ last.op = "free" /\ last.trip_n > 0 /\ disciplined
    /\ Partition(last.trip_list, pool_size)
    /\ NoAdjacentFree(last.trip_list)
    /\ Len(last.pre_list) = Len(last.trip_list) + 1
    /\ Len(last.trip_list) >= 3
    /\ last.ptr # memory_pool

\* C35: when resize(h, m), h not NULL, m > 0, returns a handle that is not
\* NULL, the descriptor at the returned offset is marked allocated, also
\* when h is a stale handle to a freed block or the zero-size sentinel.
C35_ResizeResultAllocated ==
    (last.op = "resize" /\ last.ptr # NULL /\ last.size > 0
        /\ last.ret # NULL) =>
        \E k \in DOMAIN block_list :
            /\ memory_pool + block_list[k].offset = last.ret
            /\ block_list[k].is_free = 0

\* C36: before mem_init and after mem_deinit, alloc(n) returns NULL for
\* every n, 0 included, free(h) does nothing, resize(h, m) returns NULL, and
\* the allocator stays uninitialised with an empty chain; only mem_init
\* makes it Ready, with exactly one free descriptor (0, capacity).
C36_UninitializedSafe ==
    /\ (last.pre_mp = NULL /\ last.op \in {"alloc", "free", "resize"}) =>
          /\ last.ret = NULL
          /\ memory_pool = NULL /\ pool_size = 0
          /\ block_list = << >> /\ pool = << >>
    /\ (last.pre_mp = NULL /\ Ready) => last.op = "init"
    /\ last.op = "init" =>
          /\ Ready
          /\ pool_size = last.size
          /\ block_list = << MemBlock(0, last.size, 1) >>

\* resize of a handle that is not NULL while the allocator is uninitialised
C36_Witness ==
    /\ ~Ready /\ last.pre_mp = NULL
    /\ last.op = "resize" /\ last.ptr # NULL /\ last.size > 0
    /\ ~disciplined

\* --------------------------------------------------- properties of the list
ListQuiet == \A t \in Threads : lt[t].pc = "idle"

InListCs(t) ==
    lt[t].pc \in {"insert_cs", "insert_link", "delete_cs", "delete_unlink",
                  "count_cs"}

\* the chain from head ends in NULL, visits no node twice, and consists of
\* exactly the nodes that are allocated
WellFormed ==
    LET ns == Nodes(node, head) IN
    /\ Len(ns) <= MaxNodes
    /\ \A i, j \in DOMAIN ns : i # j => ns[i] # ns[j]
    /\ {ns[i] : i \in DOMAIN ns} = {a \in NodeIds : node[a].live}

CountOf(items, v) == Cardinality({i \in DOMAIN items : items[i].data = v})

\* C32: threads that call list_insert and list_delete on one head execute
\* their bodies one at a time under list_mutex; once all calls have returned
\* the list is a well-formed NULL-terminated chain that holds each value as
\* often as it was inserted minus the deletes that found it, and a
\* list_count_nodes that returned last returned that number of nodes.
C32_ListSerialized ==
    /\ \A t \in Threads : InListCs(t) => list_mutex = t
    /\ ListQuiet =>
          /\ WellFormed
          /\ \A v \in Values :
                 CountOf(Items(node, head), v) = tally.ins[v] - tally.del[v]
          /\ llast.op = "count" =>
                 /\ llast.ret = Len(Nodes(node, head))
                 /\ llast.ret = Inserted - Deleted

\* both values were inserted, one node was deleted, a call had to wait for
\* the mutex, and the count came last
C32_Witness ==
    /\ ListQuiet /\ tally.contended
    /\ \A v \in Values : tally.ins[v] >= 1
    /\ Deleted >= 1
    /\ llast.op = "count" /\ llast.ret >= 1

\* the indices of the nodes that hold data
Holding(items, data) == {i \in DOMAIN items : items[i].data = data}

\* C33: list_delete(head, d) removes exactly the first node, in list order,
\* whose data is d, keeps the other nodes in their order and moves the head
\* when the first node goes, and the node is freed (until a later
\* list_insert allocates it again); when no node holds d the list is left
\* as it was; either way the caller has released list_mutex when it returns.
C33_DeleteFirstMatch ==
    llast.op = "delete" =>
        LET pre == llast.pre
            now == Items(node, head)
            at == Holding(pre, llast.data) IN
        /\ llast.done <=> at # {}
        /\ at = {} => now = pre
        /\ at # {} =>
              LET k == CHOOSE i \in at : \A j \in at : i <= j IN
              /\ now = RemoveAt(pre, k)
              /\ (\A t \in Threads : lt[t].pc # "insert_link") =>
                     ~node[pre[k].id].live
              /\ k = 1 => head = (IF Len(pre) > 1 THEN pre[2].id ELSE NULL)
        /\ lt[llast.by].pc = "idle" => list_mutex # llast.by

\* the value deleted was held by two nodes with another node between them
C33_Witness ==
    /\ llast.op = "delete" /\ llast.done
    /\ Cardinality(Holding(llast.pre, llast.data)) = 2
    /\ Len(llast.pre) = 3
    /\ llast.pre[2].data # llast.data
    /\ lt[llast.by].pc = "idle"

\* a delete that found nothing in a list that is not empty
C33_WitnessNotFound ==
    /\ llast.op = "delete" /\ ~llast.done
    /\ Len(llast.pre) >= 1
    /\ lt[llast.by].pc = "idle"
=============================================================================
